---------------------------- MODULE Spec2Model ----------------------------
(***************************************************************************)
(* TutorFlow: the interactive confirmation protocol of TutorTelegramBot    *)
(* (src/src/bot/telegram_bot.py).                                          *)
(*                                                                         *)
(* Python strings are sequences of one-character strings, so that          *)
(* str.startswith, str.split, str.replace and float() are computed the way *)
(* the code computes them.  An Optional value is a sequence of length 0    *)
(* (None) or 1 (the value).  A dict is a function whose DOMAIN is its set  *)
(* of keys.  Each action runs one coroutine from the point where it        *)
(* resumes to its next await: the asyncio event loop interleaves tasks     *)
(* only there.                                                             *)
(***************************************************************************)
EXTENDS Integers, Sequences, FiniteSets, TLC

VARIABLES
    students,        \* orchestrate_tutoring_sessions: parameter students
    duration,        \* orchestrate_tutoring_sessions: parameter duration
    active_results,  \* self._active_results: Dict[str, Any]
    waiting,         \* context.user_data["waiting_for_amount_for"]
    opc,             \* orchestrator: the await it is suspended at
    idx,             \* orchestrator: position of the for loop (1-based)
    results,         \* orchestrator: local list results
    skipped,         \* positions whose initial prompt failed to send
    hpc,             \* event handler: the await it is suspended at
    hloc,            \* event handler: its local variables
    confirmed,       \* observer: confirm_yes was handled for the subject in flight
    leftover         \* observer: the store held a finished result for the
                     \* subject in flight when its prompt was issued

vars == <<students, duration, active_results, waiting, opc, idx, results,
          skipped, hpc, hloc, confirmed, leftover>>

---------------------------------------------------------------------------
(* Bounds of the model.                                                    *)

MaxStudents == 2

---------------------------------------------------------------------------
(* String literals of the program.                                         *)

CONFIRM_NO == <<"c","o","n","f","i","r","m","_","n","o">>
CONFIRM_YES == <<"c","o","n","f","i","r","m","_","y","e","s">>
PAY_STD == <<"p","a","y","_","s","t","d">>
PAY_NONE == <<"p","a","y","_","n","o","n","e">>
PAY_CUSTOM == <<"p","a","y","_","c","u","s","t","o","m">>
SEP == "|"

None == << >>
Some(v) == <<v>>

(* Python truthiness of an Optional[str]: None and "" are falsy.          *)
Truthy(o) == o # None /\ o[1] # << >>

---------------------------------------------------------------------------
(* str operations.                                                         *)

StartsWith(s, p) == Len(s) >= Len(p) /\ SubSeq(s, 1, Len(p)) = p

RECURSIVE SplitFrom(_, _, _, _)
SplitFrom(s, sep, i, cur) ==
    IF i > Len(s) THEN <<cur>>
    ELSE IF s[i] = sep THEN <<cur>> \o SplitFrom(s, sep, i + 1, << >>)
    ELSE SplitFrom(s, sep, i + 1, Append(cur, s[i]))

Split(s, sep) == SplitFrom(s, sep, 1, << >>)

Replace(s, old, new) == [i \in 1..Len(s) |-> IF s[i] = old THEN new ELSE s[i]]

---------------------------------------------------------------------------
(* float(): a float is [neg, mant, frac], the decimal (-1)^neg * mant /    *)
(* 10^frac with frac minimal.  The grammar modelled is                     *)
(* [sign] (digits ["." [digits]] | "." digits) over the characters of      *)
(* Texts; every other character makes float() raise ValueError.            *)

Digits == {"0","1","2","3","4","5","6","7","8","9"}

DigitVal(c) ==
    CASE c = "0" -> 0 [] c = "1" -> 1 [] c = "2" -> 2 [] c = "3" -> 3
      [] c = "4" -> 4 [] c = "5" -> 5 [] c = "6" -> 6 [] c = "7" -> 7
      [] c = "8" -> 8 [] c = "9" -> 9

RECURSIVE DigitsVal(_)
DigitsVal(s) ==
    IF s = << >> THEN 0
    ELSE 10 * DigitsVal(SubSeq(s, 1, Len(s) - 1)) + DigitVal(s[Len(s)])

AllDigits(s) == \A i \in 1..Len(s) : s[i] \in Digits

RECURSIVE Normalize(_, _)
Normalize(mant, frac) ==
    IF frac > 0 /\ mant % 10 = 0 THEN Normalize(mant \div 10, frac - 1)
    ELSE [mant |-> mant, frac |-> frac]

Float(neg, mant, frac) ==
    [neg |-> neg, mant |-> Normalize(mant, frac).mant,
     frac |-> Normalize(mant, frac).frac]

ZERO == Float(FALSE, 0, 0)

ParseUnsigned(s, neg) ==
    LET parts == Split(s, ".")
    IN  IF Len(parts) = 1
        THEN IF s # << >> /\ AllDigits(s)
             THEN Some(Float(neg, DigitsVal(s), 0)) ELSE None
        ELSE IF Len(parts) = 2
        THEN IF /\ AllDigits(parts[1]) /\ AllDigits(parts[2])
                /\ Len(parts[1]) + Len(parts[2]) > 0
             THEN Some(Float(neg, DigitsVal(parts[1] \o parts[2]),
                             Len(parts[2])))
             ELSE None
        ELSE None

ParseFloat(s) ==
    IF s = << >> THEN None
    ELSE IF s[1] = "-" THEN ParseUnsigned(Tail(s), TRUE)
    ELSE IF s[1] = "+" THEN ParseUnsigned(Tail(s), FALSE)
    ELSE ParseUnsigned(s, FALSE)

IsNegative(a) == a.neg /\ a.mant > 0

---------------------------------------------------------------------------
(* Inputs: the subjects, the duration strings, the callback payloads and   *)
(* the free texts the transport may deliver.                               *)

A == <<"A">>
B == <<"B">>
Subjects == {A, B}

Durations == {"1h 0min"}

Payload(action, s) == action \o <<SEP>> \o s

TerminalActions == {CONFIRM_NO, PAY_STD, PAY_NONE}
Actions == {CONFIRM_NO, CONFIRM_YES, PAY_STD, PAY_NONE, PAY_CUSTOM}

WellFormed == {Payload(a, s) : a \in Actions, s \in Subjects}

Malformed ==
    { << >>,                                  \* empty payload
      CONFIRM_NO,                             \* no separator
      Payload(CONFIRM_NO, A) \o <<SEP>> \o B, \* extra field
      Payload(PAY_STD, A) \o <<SEP>> \o B,
      Payload(PAY_STD \o <<"x">>, A),         \* longer tag with a known prefix
      Payload(<<"n","o","o","p">>, A) }       \* unknown prefix

Datas == WellFormed \cup Malformed

Texts ==
    { <<"4","0",",","0","0">>, <<"-","5">>, <<"a","b","c">>, << >> }

(* The lists of at most MaxStudents subjects, repetitions included.  The   *)
(* program treats all names alike, so the first subject is called A.       *)
StudentLists ==
    {l \in UNION {[1..n -> Subjects] : n \in 0..MaxStudents} :
        l = << >> \/ l[1] = A}

---------------------------------------------------------------------------
(* dict operations on self._active_results.                                *)

Get(store, k) == IF k \in DOMAIN store THEN store[k] ELSE None

Put(store, k, v) ==
    [x \in DOMAIN store \cup {k} |-> IF x = k THEN v ELSE store[x]]

Pop(store, k) == [x \in DOMAIN store \ {k} |-> store[x]]

Result(student, held, status, amount) ==
    [student |-> student, held |-> held, payment_status |-> status,
     amount |-> amount]

(* Changed WithDuration: the duration is left empty.                       *)
WithDurationEmpty(r, d) ==
    [student |-> r.student, held |-> r.held,
     payment_status |-> r.payment_status, amount |-> r.amount,
     duration |-> ""]

(* Line 166: the record with the key "duration" set.                       *)
WithDuration(r, d) ==
    [student |-> r.student, held |-> r.held,
     payment_status |-> r.payment_status, amount |-> r.amount,
     duration |-> d]

---------------------------------------------------------------------------
(* Outbound messages.                                                      *)

Msg(kind, s, buttons) == [kind |-> kind, student |-> s, buttons |-> buttons]

NoMsg == Msg("none", << >>, << >>)

NoExc == ""

Prompt(s) ==
    Msg("prompt", s, <<Payload(CONFIRM_YES, s), Payload(CONFIRM_NO, s)>>)

PaymentPrompt(s) ==
    Msg("edit_payment_choice", s,
        <<Payload(PAY_STD, s), Payload(PAY_NONE, s), Payload(PAY_CUSTOM, s)>>)

ErrorReport(s) == Msg("error_report", s, << >>)

---------------------------------------------------------------------------
(* Observer of the per-subject state machine (spec 4.2), kept for the      *)
(* subject whose prompt is in flight.  The program has no state field: the *)
(* state is what the slot, waiting_for_amount_for and the confirm_yes      *)
(* handled since the prompt imply.                                         *)

AMOUNT == <<"a","m","o","u","n","t">>

InFlight == opc \in {"sending", "polling"}

Current == students[idx]

Finished(store, s) == s \in DOMAIN store /\ store[s] # None

StateOf(s) ==
    IF ~(InFlight /\ Current = s) THEN "Idle"
    ELSE IF Finished(active_results, s) THEN "Completed"
    ELSE IF waiting = Some(s) THEN "AwaitingAmountInput"
    ELSE IF confirmed THEN "AwaitingPaymentChoice"
    ELSE "AwaitingConfirmation"

Matches(state, action) ==
    \/ state = "AwaitingConfirmation" /\ action \in {CONFIRM_NO, CONFIRM_YES}
    \/ state = "AwaitingPaymentChoice" /\ action \in {PAY_STD, PAY_NONE, PAY_CUSTOM}
    \/ state = "AwaitingAmountInput" /\ action = AMOUNT

Observe(action, s) ==
    confirmed' = (confirmed \/ (action = CONFIRM_YES /\ InFlight /\ Current = s))

---------------------------------------------------------------------------
(* Orchestrator: orchestrate_tutoring_sessions and the coroutines it       *)
(* awaits.                                                                 *)

(* _wait_for_user_response, line 216: the loop condition.                  *)
StillPending(store, s) == Get(store, s) = None

(* Changed EnterWait: the slot is created holding a default record.        *)
EnterWaitDefault(store, s) ==
    IF s \notin DOMAIN store
    THEN Put(store, s, Some(Result(s, FALSE, "none", ZERO)))
    ELSE store

(* _wait_for_user_response, lines 214-215: the slot is created on entry.   *)
EnterWait(store, s) == IF s \notin DOMAIN store THEN Put(store, s, None) ELSE store

(* The for statement reaching position i with the given locals, run up to  *)
(* its next await: either the loop is over and the function returns, or    *)
(* the prompt of students[i] is handed to the transport.                   *)
Iterate(i, res, skp) ==
    /\ idx' = i
    /\ results' = res
    /\ skipped' = skp
    /\ IF i > Len(students)
       THEN opc' = "done"
       ELSE opc' = "sending"
    /\ confirmed' = FALSE
    /\ leftover' = (i <= Len(students) /\ Finished(active_results', students[i]))

(* Changed Consume: the record is inserted at the head of the list.        *)
ConsumePrepend(store) ==
    /\ active_results' = Pop(store, Current)
    /\ Iterate(idx + 1,
               <<WithDuration(store[Current][1], duration)>> \o results,
               skipped)

(* Lines 216-218 and 165-166 once the slot is finished: pop, append, set   *)
(* the duration, go on with the next position.                             *)
Consume(store) ==
    /\ active_results' = Pop(store, Current)
    /\ Iterate(idx + 1,
               Append(results, WithDuration(store[Current][1], duration)),
               skipped)

(* Changed WaitLoop: the orchestrator goes on without the answer.          *)
WaitLoopNoWait(store) ==
    IF StillPending(store, Current)
    THEN /\ active_results' = store
         /\ Iterate(idx + 1, results, skipped)
    ELSE Consume(store)

(* The body of _wait_for_user_response from the loop test on.              *)
WaitLoop(store) ==
    IF StillPending(store, Current)
    THEN /\ opc' = "polling"
         /\ active_results' = store
         /\ UNCHANGED <<idx, results, skipped, confirmed, leftover>>
    ELSE Consume(store)

HandlerVars == <<waiting, hpc, hloc>>

Orchestrate ==
    /\ opc = "start"
    /\ UNCHANGED <<students, duration, active_results, HandlerVars>>
    /\ Iterate(1, << >>, {})

(* bot.send_message of the prompt returns: line 186, then 161-164.         *)
SendReturns ==
    /\ opc = "sending"
    /\ WaitLoop(EnterWait(active_results, Current))
    /\ UNCHANGED <<students, duration, HandlerVars>>

(* bot.send_message of the prompt raises: lines 187-188.                   *)
SendFails ==
    /\ opc = "sending"
    /\ opc' = "reporting"
    /\ confirmed' = FALSE
    /\ UNCHANGED <<students, duration, active_results, idx, results, skipped,
                   leftover, HandlerVars>>

(* Changed ReportReturns: the failed send ends the batch.                  *)
ReportReturnsAborts ==
    /\ opc = "reporting"
    /\ idx' = idx + 1
    /\ opc' = "done"
    /\ confirmed' = FALSE
    /\ skipped' = skipped \cup {idx}
    /\ UNCHANGED <<students, duration, active_results, results, leftover,
                   HandlerVars>>

(* send_error_report ends, its send delivered or not (lines 225-227):      *)
(* _send_single_lesson_confirmation returns False, the loop continues.     *)
ReportReturns ==
    /\ opc = "reporting"
    /\ UNCHANGED <<students, duration, active_results, HandlerVars>>
    /\ Iterate(idx + 1, results, skipped \cup {idx})

(* Changed PollWakes: the loop test and the pop are separate steps.        *)
PollWakesObserves ==
    /\ opc = "polling"
    /\ IF StillPending(active_results, Current)
       THEN opc' = "polling"
       ELSE opc' = "observed"
    /\ UNCHANGED <<students, duration, active_results, idx, results, skipped,
                   confirmed, leftover, HandlerVars>>

(* asyncio.sleep(1) returns: line 216 is tested again.                     *)
PollWakes ==
    /\ opc = "polling"
    /\ WaitLoop(active_results)
    /\ UNCHANGED <<students, duration, HandlerVars>>

(* The send the orchestrator is suspended at, if any: lines 184 and 226.    *)
OrchOut ==
    IF opc = "sending" THEN Prompt(Current)
    ELSE IF opc = "reporting" THEN ErrorReport(Current)
    ELSE NoMsg

---------------------------------------------------------------------------
(* Event handlers.  The Application is built without concurrent_updates   *)
(* (lines 48-54), so one update is handled at a time; the orchestrator     *)
(* runs while a handler is suspended at an await.  hloc.msg is the message *)
(* of the send the handler is suspended at; hloc.exc is the exception that *)
(* left the handler, which the Application logs.                           *)

Local(tag, action, student, status, amount, msg, exc) ==
    [tag |-> tag, action |-> action, student |-> student, status |-> status,
     amount |-> amount, msg |-> msg, exc |-> exc]

NoLocal == Local(<< >>, << >>, << >>, "", None, NoMsg, NoExc)

OrchVars == <<students, duration, opc, idx, results, skipped, leftover>>

(* The handler returns.                                                    *)
Return ==
    /\ hpc' = "idle"
    /\ hloc' = NoLocal

(* The handler raises exc.                                                 *)
Raise(exc) ==
    /\ hpc' = "raised"
    /\ hloc' = [NoLocal EXCEPT !.exc = exc]

(* Lines 83, 89, 93, 102: the branch taken, named by the prefix matched.   *)
Branch(data) ==
    IF StartsWith(data, CONFIRM_NO) THEN CONFIRM_NO
    ELSE IF StartsWith(data, CONFIRM_YES) THEN CONFIRM_YES
    ELSE IF StartsWith(data, PAY_STD) THEN PAY_STD
    ELSE IF StartsWith(data, PAY_NONE) THEN PAY_NONE
    ELSE IF StartsWith(data, PAY_CUSTOM) THEN PAY_CUSTOM
    ELSE << >>

(* Changed StatusOf: the two statuses are swapped.                         *)
StatusOfSwapped(action) == IF action = PAY_STD THEN "none" ELSE "standard"

(* Line 95.                                                                *)
StatusOf(action) == IF action = PAY_STD THEN "standard" ELSE "none"

(* Lines 86 and 99: the record a button finalizes.                         *)
ButtonResult(tag, student, status) ==
    IF tag = CONFIRM_NO THEN Result(student, FALSE, "none", ZERO)
    ELSE Result(student, TRUE, status, ZERO)

(* Lines 133-138.                                                          *)
CustomResult(student, amount) == Result(student, TRUE, "custom", amount)

(* Updates are handled while orchestrate_tutoring_sessions runs: the       *)
(* caller calls it as soon as the updater has started, with no await in    *)
(* between, and stops the updater and the Application once it has returned *)
(* (lines 233-245).                                                        *)
Running == opc \notin {"start", "done"}

(* The edit of the prompt is handed to the transport.                      *)
IssueEdit(msg, tag, fields, status) ==
    /\ hpc' = "edit"
    /\ hloc' = Local(tag, fields[1], fields[2], status, None, msg, NoExc)

(* A CallbackQuery update arrives and await query.answer() (line 79)       *)
(* raises, whatever the non-empty payload is.                              *)
AnswerFails ==
    /\ Running
    /\ hpc = "idle"
    /\ Raise("TelegramError")
    /\ UNCHANGED <<OrchVars, active_results, waiting, confirmed>>

(* A CallbackQuery update arrives: lines 75-106 up to the await of the     *)
(* edit.  await query.answer() (line 79) suspends the handler before it    *)
(* has read or written anything shared, so its return is taken in the same *)
(* step.                                                                   *)
ReceiveCallback(data) ==
    /\ Running
    /\ hpc = "idle"
    /\ LET tag == Branch(data)
           fields == Split(data, SEP)
       IN  IF data = << >>
           THEN /\ Return
                /\ UNCHANGED <<waiting, confirmed>>
           ELSE IF tag = << >>
           THEN /\ Return
                /\ UNCHANGED <<waiting, confirmed>>
           ELSE IF tag \in {PAY_STD, PAY_NONE}
           THEN IF Len(fields) # 2
                THEN /\ Raise("ValueError")
                     /\ UNCHANGED <<waiting, confirmed>>
                ELSE /\ IssueEdit(Msg("edit_recorded", fields[2], << >>),
                                  tag, fields, StatusOf(fields[1]))
                     /\ UNCHANGED <<waiting, confirmed>>
           ELSE IF Len(fields) < 2
           THEN /\ Raise("IndexError")
                /\ UNCHANGED <<waiting, confirmed>>
           ELSE IF tag = CONFIRM_NO
           THEN /\ IssueEdit(Msg("edit_not_held", fields[2], << >>),
                             tag, fields, "")
                /\ UNCHANGED <<waiting, confirmed>>
           ELSE IF tag = CONFIRM_YES
           THEN /\ IssueEdit(PaymentPrompt(fields[2]), tag, fields, "")
                /\ UNCHANGED <<waiting, confirmed>>
           ELSE /\ waiting' = Some(fields[2])
                /\ IssueEdit(Msg("edit_ask_amount", fields[2], << >>),
                             tag, fields, "")
                /\ UNCHANGED confirmed
    /\ UNCHANGED <<OrchVars, active_results>>

(* query.edit_message_text raises.                                         *)
EditFails ==
    /\ hpc = "edit"
    /\ Raise("TelegramError")
    /\ UNCHANGED <<OrchVars, active_results, waiting, confirmed>>

(* Changed EditReturns: the confirm_yes branch finalizes a record too.      *)
EditReturnsFinalizesYes ==
    /\ hpc = "edit"
    /\ Return
    /\ IF hloc.tag \in {CONFIRM_NO, CONFIRM_YES, PAY_STD, PAY_NONE}
       THEN active_results' =
                Put(active_results, hloc.student,
                    Some(ButtonResult(hloc.tag, hloc.student, hloc.status)))
       ELSE UNCHANGED active_results
    /\ Observe(hloc.tag, hloc.student)
    /\ UNCHANGED <<OrchVars, waiting>>

(* query.edit_message_text returns: lines 86 and 99.                       *)
EditReturns ==
    /\ hpc = "edit"
    /\ Return
    /\ IF hloc.tag \in {CONFIRM_NO, PAY_STD, PAY_NONE}
       THEN active_results' =
                Put(active_results, hloc.student,
                    Some(ButtonResult(hloc.tag, hloc.student, hloc.status)))
       ELSE UNCHANGED active_results
    /\ Observe(hloc.tag, hloc.student)
    /\ UNCHANGED <<OrchVars, waiting>>

(* Changed ReceiveMessage: a text that nothing waits for is answered with  *)
(* the re-prompt.                                                          *)
ReceiveMessageReplies(text) ==
    /\ Running
    /\ hpc = "idle"
    /\ IF text = << >>
       THEN Return
       ELSE LET student == IF Truthy(waiting) THEN waiting[1] ELSE << >>
                amount == IF Truthy(waiting)
                          THEN ParseFloat(Replace(text, ",", "."))
                          ELSE None
            IN  /\ hpc' = "reply"
                /\ hloc' = Local(AMOUNT, AMOUNT, student, "", amount,
                                 IF amount # None
                                 THEN Msg("reply_recorded", student, << >>)
                                 ELSE Msg("reply_invalid", student, << >>),
                                 NoExc)
    /\ UNCHANGED <<OrchVars, active_results, waiting, confirmed>>

(* A text update arrives: lines 119-130 or 142-143, up to reply_text.      *)
ReceiveMessage(text) ==
    /\ Running
    /\ hpc = "idle"
    /\ IF text = << >> \/ ~Truthy(waiting)
       THEN Return
       ELSE LET student == waiting[1]
                amount == ParseFloat(Replace(text, ",", "."))
            IN  /\ hpc' = "reply"
                /\ hloc' = Local(AMOUNT, AMOUNT, student, "", amount,
                                 IF amount # None
                                 THEN Msg("reply_recorded", student, << >>)
                                 ELSE Msg("reply_invalid", student, << >>),
                                 NoExc)
    /\ UNCHANGED <<OrchVars, active_results, waiting, confirmed>>

(* message.reply_text raises.                                              *)
ReplyFails ==
    /\ hpc = "reply"
    /\ Raise("TelegramError")
    /\ UNCHANGED <<OrchVars, active_results, waiting, confirmed>>

(* Changed ReplyReturns: the waiting state is cleared after the re-prompt  *)
(* too.                                                                    *)
ReplyReturnsClears ==
    /\ hpc = "reply"
    /\ Return
    /\ waiting' = None
    /\ IF hloc.amount # None
       THEN active_results' =
                Put(active_results, hloc.student,
                    Some(CustomResult(hloc.student, hloc.amount[1])))
       ELSE UNCHANGED active_results
    /\ UNCHANGED <<OrchVars, confirmed>>

(* message.reply_text returns: lines 133-140 after the acknowledgement,    *)
(* nothing after the re-prompt.                                            *)
ReplyReturns ==
    /\ hpc = "reply"
    /\ Return
    /\ IF hloc.amount # None
       THEN /\ active_results' =
                  Put(active_results, hloc.student,
                      Some(CustomResult(hloc.student, hloc.amount[1])))
            /\ waiting' = None
       ELSE UNCHANGED <<active_results, waiting>>
    /\ UNCHANGED <<OrchVars, confirmed>>

(* The exception that left the handler reaches the Application, which      *)
(* logs it; the next update can be handled.                                *)
ErrorLogged ==
    /\ hpc = "raised"
    /\ Return
    /\ UNCHANGED <<OrchVars, active_results, waiting, confirmed>>

---------------------------------------------------------------------------

Init ==
    /\ students \in StudentLists
    /\ duration \in Durations
    /\ active_results = << >>
    /\ waiting = None
    /\ opc = "start"
    /\ idx = 1
    /\ results = << >>
    /\ skipped = {}
    /\ hpc = "idle"
    /\ hloc = NoLocal
    /\ confirmed = FALSE
    /\ leftover = FALSE

Next ==
    \/ Orchestrate
    \/ SendReturns
    \/ SendFails
    \/ ReportReturns
    \/ PollWakes
    \/ \E data \in Datas : ReceiveCallback(data)
    \/ AnswerFails
    \/ EditFails
    \/ EditReturns
    \/ \E text \in Texts : ReceiveMessage(text)
    \/ ReplyFails
    \/ ReplyReturns
    \/ ErrorLogged

Spec == Init /\ [][Next]_vars

(* Scheduling the asyncio event loop guarantees: a coroutine whose await   *)
(* can complete is resumed.  asyncio.sleep(1) returns (line 217), and a    *)
(* request to the transport ends, by returning or by raising (the          *)
(* Application is built with connect and read timeouts, lines 51-52).      *)
(* Nothing makes the operator send an event.                               *)
FairSpec ==
    /\ Spec
    /\ WF_vars(Orchestrate)
    /\ WF_vars(SendReturns \/ SendFails)
    /\ WF_vars(ReportReturns)
    /\ WF_vars(PollWakes)
    /\ WF_vars(EditReturns \/ EditFails)
    /\ WF_vars(ReplyReturns \/ ReplyFails)
    /\ WF_vars(ErrorLogged)

---------------------------------------------------------------------------
(* Definitions shared by the properties.                                   *)

(* The subjects of positions 1..n whose prompt was sent, in input order.   *)
RECURSIVE KeptUpTo(_)
KeptUpTo(n) ==
    IF n = 0 THEN << >>
    ELSE IF n \in skipped THEN KeptUpTo(n - 1)
    ELSE Append(KeptUpTo(n - 1), students[n])

ResultSubjects == [i \in 1..Len(results) |-> results[i].student]

(* The step consumes the finished slot of the subject in flight.           *)
ConsumesCurrent ==
    /\ Finished(active_results, Current)
    /\ Current \notin DOMAIN active_results'
    /\ results' = Append(results,
                         WithDuration(active_results[Current][1], duration))

(* The step ends a handler call with its last send delivered.              *)
HandlerCompletes == hpc \in {"edit", "reply"} /\ hpc' = "idle"

(* The handler is about to finalize a result for s.                        *)
TerminalFor(s) ==
    /\ hloc.student = s
    /\ \/ hpc = "edit" /\ hloc.tag \in TerminalActions
       \/ hpc = "reply" /\ hloc.amount # None

(* The terminal action a finished record stands for (spec 4.2, 4.3).       *)
RecordTag(r) ==
    IF ~r.held THEN CONFIRM_NO
    ELSE IF r.payment_status = "standard" THEN PAY_STD
    ELSE IF r.payment_status = "none" THEN PAY_NONE
    ELSE AMOUNT

---------------------------------------------------------------------------
(* C1 as stated: when orchestrate_tutoring_sessions has returned, the      *)
(* result list has exactly one record per input subject, the i-th record   *)
(* being that of the i-th input subject.                                   *)
C1_OnePerInput ==
    opc = "done" =>
        /\ Len(results) = Len(students)
        /\ \A i \in 1..Len(results) : results[i].student = students[i]

(* C1 amended: when orchestrate_tutoring_sessions has returned, the result *)
(* list has exactly one record per input subject whose initial prompt was  *)
(* sent, in input order; a subject whose prompt failed to send has none.   *)
C1_OnePerSentSubject ==
    opc = "done" => ResultSubjects = KeptUpTo(Len(students))

C1_Witness ==
    /\ opc = "done"
    /\ skipped = {}
    /\ Len(results) = 2
    /\ results[1].student # results[2].student

(* C2 as stated: the orchestrator moves from subject N to subject N+1 and  *)
(* sends the prompt of N+1 only by consuming N's finished slot.            *)
C2_NextOnlyAfterConsume ==
    [][(idx' # idx /\ opc' = "sending") => ConsumesCurrent]_vars

(* C2 amended: the orchestrator moves from subject N to subject N+1 only   *)
(* by consuming N's finished slot, or, when N's prompt failed to send, by  *)
(* skipping N once its error report has been attempted.                    *)
C2_NextAfterConsumeOrSkip ==
    [][idx' # idx =>
          \/ ConsumesCurrent
          \/ /\ opc = "reporting"
             /\ skipped' = skipped \cup {idx}
             /\ UNCHANGED <<active_results, results>>]_vars

C2_Witness ==
    /\ opc = "sending"
    /\ idx = 2
    /\ Len(results) = 1
    /\ results[1].student = students[1]

C4_FinishedNotOverwritten ==
    [][(/\ opc = "polling"
        /\ Finished(active_results, Current)
        /\ Current \in DOMAIN active_results')
       => active_results'[Current] = active_results[Current]]_vars

(* C5: when a slot holds the finished result of a terminal button and the  *)
(* same action tag is handled again for that subject, the store is left    *)
(* as it was.                                                              *)
C5_RepeatedTagIdempotent ==
    [][(/\ hpc = "edit" /\ hpc' = "idle"
        /\ hloc.action \in TerminalActions
        /\ Finished(active_results, hloc.student)
        /\ RecordTag(active_results[hloc.student][1]) = hloc.action)
       => active_results' = active_results]_vars

C5_Witness ==
    /\ hpc = "edit"
    /\ hloc.action = PAY_STD
    /\ Finished(active_results, hloc.student)
    /\ RecordTag(active_results[hloc.student][1]) = PAY_STD

(* C6 as stated: a button for the subject in flight whose action does not  *)
(* match that subject's state in the state machine changes neither the     *)
(* store nor waiting_for_amount_for.                                       *)
C6_OutOfStateIsNoOp ==
    /\ [][(/\ hpc = "edit" /\ hpc' = "idle"
           /\ opc = "polling" /\ hloc.student = Current
           /\ ~Matches(StateOf(hloc.student), hloc.tag))
          => UNCHANGED <<active_results, waiting>>]_vars
    /\ [][\A data \in WellFormed :
            (/\ ReceiveCallback(data)
             /\ opc = "polling" /\ Split(data, SEP)[2] = Current
             /\ ~Matches(StateOf(Split(data, SEP)[2]), Branch(data)))
            => UNCHANGED <<active_results, waiting>>]_vars

(* C7 as stated: a malformed or unknown payload never makes the callback   *)
(* handler raise; the update is ignored, the store and                     *)
(* waiting_for_amount_for unchanged.                                       *)
C7_MalformedIgnored ==
    [][\A data \in Malformed :
          ReceiveCallback(data) =>
              hpc' # "raised" /\ UNCHANGED <<active_results, waiting>>]_vars

(* C8: a non-empty text that float() rejects, received while               *)
(* waiting_for_amount_for names a subject, makes the handler send the      *)
(* re-prompt to that subject's conversation, and the handler call leaves   *)
(* waiting_for_amount_for and the store as they were, so that the next     *)
(* valid amount is recorded for the same subject.                          *)
C8_InvalidAmountReprompts ==
    /\ [][\A text \in Texts :
            (/\ ReceiveMessage(text)
             /\ text # << >>
             /\ Truthy(waiting)
             /\ ParseFloat(Replace(text, ",", ".")) = None)
            => /\ hpc' = "reply"
               /\ hloc'.msg = Msg("reply_invalid", waiting[1], << >>)
               /\ hloc'.student = waiting[1]
               /\ UNCHANGED <<active_results, waiting>>]_vars
    /\ [][(hpc = "reply" /\ hloc.amount = None /\ hpc' # hpc)
          => /\ UNCHANGED <<active_results, waiting>>
             /\ waiting = Some(hloc.student)]_vars

C8_Witness ==
    /\ opc = "polling"
    /\ confirmed
    /\ hpc = "reply"
    /\ hloc.msg.kind = "reply_invalid"
    /\ waiting = Some(Current)
    /\ ~Finished(active_results, Current)

(* C9 as stated: once confirm_yes|S and pay_custom|S have been handled for *)
(* the subject S in flight and the handling of a valid numeric text ends,  *)
(* S's slot holds the custom result with the parsed amount and             *)
(* waiting_for_amount_for is empty; "40,00" parses to 40.0.                *)
C9_ValidAmountRecorded ==
    /\ [][(/\ opc = "polling" /\ confirmed /\ hloc.student = Current
           /\ hpc = "reply" /\ hloc.amount # None /\ hpc' # hpc
           /\ ~IsNegative(hloc.amount[1]))
          => /\ Get(active_results', hloc.student) =
                   Some(Result(hloc.student, TRUE, "custom", hloc.amount[1]))
             /\ waiting' = None]_vars
    /\ [][(ReceiveMessage(<<"4","0",",","0","0">>) /\ Truthy(waiting))
          => hloc'.amount = Some([neg |-> FALSE, mant |-> 40, frac |-> 0])]_vars

(* C10 as stated: no stored and no emitted result has a negative amount.   *)
C10_AmountsNonNegative ==
    /\ \A s \in DOMAIN active_results :
          active_results[s] # None => ~IsNegative(active_results[s][1].amount)
    /\ \A i \in 1..Len(results) : ~IsNegative(results[i].amount)

(* C11: when the send of a subject's initial prompt fails, the error       *)
(* report is the next send the orchestrator attempts, no slot is created   *)
(* and no record is appended for that position; when the report ends,      *)
(* delivered or not, the orchestrator goes on with the next position (it   *)
(* sends the next prompt, or returns after the last one); a position is    *)
(* skipped only this way, and the returned list has one record per         *)
(* position not skipped.                                                   *)
C11_SendFailureSkips ==
    /\ [][(opc = "sending" /\ opc' = "reporting")
          => /\ OrchOut' = ErrorReport(Current)
             /\ UNCHANGED <<active_results, results, idx>>]_vars
    /\ [][(opc = "reporting" /\ opc' # opc)
          => /\ idx' = idx + 1
             /\ skipped' = skipped \cup {idx}
             /\ UNCHANGED <<active_results, results>>
             /\ opc' = IF idx < Len(students) THEN "sending" ELSE "done"]_vars
    /\ [][skipped' # skipped => opc = "reporting"]_vars
    /\ [](opc = "done" =>
            Len(results) = Len(students) - Cardinality(skipped))

C11_Witness ==
    /\ opc = "polling"
    /\ idx = 2
    /\ skipped = {1}
    /\ results = << >>

(* C12: a text message handled while waiting_for_amount_for is None makes  *)
(* the handler return at once, whatever the text: it issues no reply,      *)
(* writes no slot and leaves waiting_for_amount_for None.                  *)
C12_TextIgnoredWhenNotWaiting ==
    [][\A text \in Texts :
          (ReceiveMessage(text) /\ waiting = None)
          => /\ hpc' = "idle"
             /\ hloc'.msg = NoMsg
             /\ active_results' = active_results
             /\ waiting' = None]_vars

C12_Witness ==
    /\ opc = "polling"
    /\ hpc = "idle"
    /\ waiting = None
    /\ confirmed
    /\ ~Finished(active_results, Current)

(* C13 as stated: when the handling of confirm_no|S ends for a subject S   *)
(* that awaits confirmation, S's slot holds {student: S, held: False,      *)
(* payment_status: none, amount: 0.0}, and the message the handler sent    *)
(* is not the payment prompt.                                              *)
C13_ConfirmNoFinalizes ==
    [][(/\ opc = "polling"
        /\ hpc = "edit" /\ hpc' # hpc
        /\ hloc.action = CONFIRM_NO
        /\ StateOf(hloc.student) = "AwaitingConfirmation")
       => /\ Get(active_results', hloc.student) =
                Some(Result(hloc.student, FALSE, "none", ZERO))
          /\ hloc.msg.kind # "edit_payment_choice"]_vars

(* C14 as stated: after confirm_yes|S, when the handling of a button whose *)
(* tag starts with pay_std ends with its acknowledgement delivered, S's    *)
(* slot holds {held: True, payment_status: standard, amount: 0.0}; for a   *)
(* tag that starts with pay_none it holds {held: True, payment_status:     *)
(* none, amount: 0.0}.                                                     *)
C14_PaymentButtonsFinalize ==
    [][(/\ opc = "polling"
        /\ hpc = "edit" /\ hpc' = "idle"
        /\ hloc.tag \in {PAY_STD, PAY_NONE}
        /\ StateOf(hloc.student) = "AwaitingPaymentChoice")
       => Get(active_results', hloc.student) =
             Some(Result(hloc.student, TRUE,
                         IF hloc.tag = PAY_STD THEN "standard" ELSE "none",
                         ZERO))]_vars

(* C15 as stated: when a send fails (the initial prompt, the edit that     *)
(* acknowledges a button, the reply that acknowledges or re-prompts an     *)
(* amount) the next send of the failing coroutine is an error report, and  *)
(* no exception leaves it; when the error report ends, delivered or not,   *)
(* the orchestrator goes on.                                               *)
C15_FailedSendsReported ==
    /\ [][(opc = "sending" /\ opc' = "reporting")
          => OrchOut'.kind = "error_report"]_vars
    /\ [][(hpc \in {"edit", "reply"} /\ hpc' \notin {hpc, "idle"})
          => hloc'.msg.kind = "error_report" /\ hloc'.exc = NoExc]_vars
    /\ [][(opc = "reporting" /\ opc' # opc)
          => opc' \in {"sending", "done"} /\ hpc' = hpc]_vars

(* C16 as stated: when the handling of a terminal event ends (confirm_no,  *)
(* pay_std, pay_none, a valid amount), the subject's slot holds a finished *)
(* result, whether the acknowledgement was delivered or not.               *)
C16_CompletedAlwaysWritten ==
    [][(/\ opc = "polling"
        /\ hpc \in {"edit", "reply"} /\ hpc' # hpc
        /\ TerminalFor(Current))
       => Finished(active_results', Current)]_vars

(* C17 as stated: while the send of a subject's initial prompt is issued   *)
(* and not yet returned, the store already has that subject's key, holding *)
(* the pending value None.                                                 *)
C17_SlotCreatedBeforePrompt ==
    opc = "sending" =>
        (Current \in DOMAIN active_results /\ active_results[Current] = None)

(* C18 as stated: once the orchestrator has consumed the result of a       *)
(* subject, the store has no entry for that subject (unless the subject is *)
(* in flight again at a later position); in particular it has none when    *)
(* orchestrate_tutoring_sessions has returned.                             *)
C18_NoSlotAfterConsume ==
    \A s \in DOMAIN active_results :
        (\E i \in 1..(idx - 1) : i \notin skipped /\ students[i] = s)
        => (opc \in {"sending", "polling"} /\ Current = s)

(* C19 as stated: after confirm_yes|S for the subject S in flight,         *)
(* waiting_for_amount_for does not name S once S's slot holds a finished   *)
(* result.                                                                 *)
C19_WaitingClearedOnLeave ==
    (opc = "polling" /\ confirmed /\ waiting = Some(Current))
        => ~Finished(active_results, Current)

(* C20 as stated: the handling of pay_custom|Y sets waiting_for_amount_for *)
(* to Y, whatever it named before, and writes no slot; when the handling   *)
(* of the next valid amount text ends while another subject X is in flight *)
(* with a pending slot, Y's slot holds the custom result and X's slot is   *)
(* still pending.                                                          *)
C20_CustomRequestOverwritten ==
    /\ [][\A s \in Subjects :
            ReceiveCallback(Payload(PAY_CUSTOM, s))
            => waiting' = Some(s) /\ active_results' = active_results]_vars
    /\ [][(hpc = "edit" /\ hloc.tag = PAY_CUSTOM /\ hpc' # hpc)
          => UNCHANGED <<active_results, waiting>>]_vars
    /\ [][(/\ opc = "polling"
           /\ hpc = "reply" /\ hpc' # hpc
           /\ hloc.amount # None /\ ~IsNegative(hloc.amount[1])
           /\ hloc.student # Current
           /\ Get(active_results, Current) = None)
          => /\ Get(active_results', hloc.student) =
                   Some(CustomResult(hloc.student, hloc.amount[1]))
             /\ Get(active_results', Current) = None]_vars

(* C21: the handling of confirm_yes|S issues one edit, the payment prompt  *)
(* with the buttons pay_std|S, pay_none|S and pay_custom|S; from its       *)
(* receipt to its end, the edit delivered or not, the handler writes no    *)
(* slot, leaves waiting_for_amount_for as it is and changes nothing of the *)
(* orchestrator, which therefore stays on S while S's slot is pending.     *)
C21_ConfirmYesOnlyPrompts ==
    /\ [][(hpc = "idle" /\ hpc' # hpc /\ hloc'.action = CONFIRM_YES)
          => /\ hpc' = "edit"
             /\ hloc'.msg.kind = "edit_payment_choice"
             /\ hloc'.msg.buttons =
                   <<Payload(PAY_STD, hloc'.student),
                     Payload(PAY_NONE, hloc'.student),
                     Payload(PAY_CUSTOM, hloc'.student)>>
             /\ UNCHANGED <<active_results, waiting, OrchVars>>]_vars
    /\ [][(hpc = "edit" /\ hloc.tag = CONFIRM_YES /\ hpc' # hpc)
          => UNCHANGED <<active_results, waiting, OrchVars>>]_vars
    /\ [][(opc = "polling" /\ idx' # idx)
          => hpc' = hpc /\ Finished(active_results, Current)]_vars

C21_Witness ==
    /\ opc = "polling"
    /\ hpc = "edit"
    /\ hloc.tag = CONFIRM_YES
    /\ hloc.student = Current
    /\ Get(active_results, Current) = None
    /\ ~confirmed

(* C22: the step in which the wait loop finds the slot of the subject in   *)
(* flight finished is the step that pops it: the record appended is the    *)
(* one the slot held at that test (with the duration set), the key is gone *)
(* afterwards, and no handler moves in that step, so no handler write      *)
(* falls between the test and the pop.                                     *)
C22_CheckAndRemoveAtomic ==
    /\ [][(/\ opc = "polling"
           /\ Finished(active_results, Current)
           /\ <<opc, idx, results>>' # <<opc, idx, results>>)
          => ConsumesCurrent]_vars
    /\ [][(SendReturns /\ Finished(active_results, Current))
          => ConsumesCurrent]_vars
    /\ [][results' # results
          => /\ ConsumesCurrent
             /\ UNCHANGED <<hpc, hloc, waiting>>
             /\ \A s \in DOMAIN active_results' :
                   active_results'[s] = active_results[s]]_vars

C22_Witness ==
    /\ idx = 2
    /\ Len(results) = 1
    /\ hpc = "edit"
    /\ hloc.tag \in TerminalActions
    /\ hloc.student = students[1]
    /\ results[1].student = students[1]
    /\ RecordTag(results[1]) # hloc.tag

(* C23: every record of the result list has the key "duration" holding the *)
(* duration string passed to orchestrate_tutoring_sessions, and no record  *)
(* a handler stored has that key.                                          *)
C23_DurationAttachedByOrchestrator ==
    /\ \A i \in 1..Len(results) :
          /\ "duration" \in DOMAIN results[i]
          /\ results[i].duration = duration
    /\ \A s \in DOMAIN active_results :
          active_results[s] # None
          => "duration" \notin DOMAIN active_results[s][1]

C23_Witness ==
    /\ opc = "polling"
    /\ Len(results) = 1
    /\ results[1].duration = duration
    /\ Finished(active_results, Current)

(* C24 as stated: the orchestrator never emits, as the answer to a         *)
(* subject's prompt, a record taken from a slot that already held a        *)
(* finished result when that prompt was issued.                            *)
C24_NoStaleResultConsumed ==
    [][results' # results => ~leftover]_vars

(* C25 as stated: once the prompt of the subject at position i has been    *)
(* sent and a terminal choice for that subject has been delivered to its   *)
(* handler, the orchestrator eventually goes on past position i.           *)
C25_TerminalChoiceEndsWait ==
    \A i \in 1..MaxStudents :
        (/\ idx = i /\ opc = "polling"
         /\ hpc \in {"edit", "reply"}
         /\ TerminalFor(students[i]))
        ~> (idx > i)

=============================================================================
